---- MODULE Spec2Model ----
(***************************************************************************)
(* flake8-multiline-equals: the checker of the spacing around `=` in the   *)
(* keyword arguments of calls (src/flake8_multiline_equals/checker.py).    *)
(*                                                                         *)
(* The plugin receives a syntax tree and the lines of one file, tokenizes  *)
(* the lines, and MultilineNamedArgsChecker visits every Call node,        *)
(* correlating each keyword with an `=` token by position.                 *)
(*                                                                         *)
(* Inputs are small source files described by their layout (Programs);     *)
(* Tokenize and Parse give the token list and the tree the standard        *)
(* tokenize and ast modules produce for that text.                         *)
(***************************************************************************)
EXTENDS Integers, Sequences, FiniteSets, TLC

\* ------------------------------------------------------------- constants

LINE_SEARCH_TOLERANCE == 1
MAX_TOKEN_LOOKAHEAD == 3

MNA001 == "MNA001 missing spaces around '=' in multiline function call"
MNA002 == "MNA002 unexpected spaces around '=' in single-line function call"

\* keyword.arg of a `**kwargs` entry
None == "None"

\* --------------------------------------------------------------- bounds

\* most keyword entries in the outer call
MaxArgs == 2
\* most calls of run() on one plugin / checker pair
MaxRuns == 2

\* ------------------------------------------------------- source layouts

Names == {"a", "b"}

\* how `name = value` is laid out:
\*   tight   a=1          spaced  a = 1
\*   pre     a =1         post    a= 1
\*   nl      a =<newline>1        nlpre   a<newline>= 1
\*   cmt     a = #c<newline>1     cmtpre  a #c<newline>= 1
PlainStyles == {"tight", "spaced"}
Styles == PlainStyles \cup {"pre", "post", "nl", "nlpre", "cmt", "cmtpre"}

\* how the arguments of the outer call are laid out:
\*   flat  foo(x, y)      hang  foo(x,<newline>y)
\*   vert  foo(<newline>x,<newline>y,<newline>)
Layouts == {"flat", "hang", "vert"}

\* values: the number 1, a name, f"{name=!r}", or bar(name=1) / bar(name=1,<newline>)
ConstVal == [kind |-> "const", name |-> "", style |-> "tight", ml |-> FALSE]
RefVals == {[kind |-> "ref", name |-> n, style |-> "tight", ml |-> FALSE] : n \in Names}
FdbgVals == {[kind |-> "fdbg", name |-> n, style |-> "tight", ml |-> FALSE] : n \in Names}
CallVals == {[kind |-> "call", name |-> n, style |-> s, ml |-> m] :
               n \in Names, s \in PlainStyles, m \in BOOLEAN}
Vals == {ConstVal} \cup RefVals \cup FdbgVals \cup CallVals

NoPre == [name |-> "", sp |-> FALSE]
\* an assignment `name = 0` or `name=0` on the line before the call
Pres == [name : Names, sp : BOOLEAN]

StarArg == [name |-> None, style |-> "tight", val |-> ConstVal]
\* entries name=1 and name = 1
PlainArgs == {StarArg} \cup
             {[name |-> n, style |-> s, val |-> ConstVal] : n \in Names, s \in PlainStyles}
\* entries whose layout varies, value 1
LayoutArgs == {StarArg} \cup
              {[name |-> n, style |-> s, val |-> ConstVal] : n \in Names, s \in Styles}
\* entries whose value varies
ValueArgs == {StarArg} \cup
             {[name |-> n, style |-> s, val |-> v] : n \in Names, s \in PlainStyles, v \in Vals}

\* Python rejects a call that repeats a keyword name
DistinctNames(args) ==
    \A i, j \in 1..Len(args) :
        (i # j /\ args[i].name # None) => args[i].name # args[j].name

ArgSeqs(S) ==
    {args \in UNION {[1..n -> S] : n \in 1..MaxArgs} : DistinctNames(args)}

\* at most one entry has a value other than 1
OneValueAtMost(args) ==
    Cardinality({i \in 1..Len(args) : args[i].val.kind # "const"}) <= 1

\* the files: a call after an assignment; a call in every layout of its
\* entries; a call with a name, an f-string or a nested call among its values
Programs ==
    {[pre |-> p, layout |-> l, args |-> as] :
        p \in Pres, l \in Layouts, as \in ArgSeqs(PlainArgs)}
    \cup
    {[pre |-> NoPre, layout |-> l, args |-> as] :
        l \in Layouts, as \in ArgSeqs(LayoutArgs)}
    \cup
    {[pre |-> NoPre, layout |-> l, args |-> as] :
        l \in Layouts, as \in {x \in ArgSeqs(ValueArgs) : OneValueAtMost(x)}}

\* ------------------------------------------- tokenize and ast, by layout

\* The text of a file is a sequence of items: tokens, single blanks, and
\* line starts (a new line indented by `width` blanks).  A token's role and
\* depth say what the parser makes of it: "call" the callee of the outer call,
\* "kw" a keyword name, "star" a `**`, "val" the first token of a keyword's
\* value, "valcall" such a token that is the callee of a nested call, "close"
\* the `)` of the call at that depth.
Item(kind, type, string, width, role, depth) ==
    [kind |-> kind, type |-> type, string |-> string, width |-> width,
     role |-> role, depth |-> depth]

T(type, string, width) == <<Item("tok", type, string, width, "", 0)>>
R(type, string, width, role, depth) == <<Item("tok", type, string, width, role, depth)>>
SP == <<Item("sp", "", "", 1, "", 0)>>
LineStart(indent) == <<Item("line", "", "", indent, "", 0)>>

\* a line break inside brackets: an NL token ends the line
BRK(indent) == T("NL", "\n", 1) \o LineStart(indent)
\* the end of a statement: a NEWLINE token ends the line
ENDLINE == T("NEWLINE", "\n", 1) \o LineStart(0)

EQ == T("OP", "=", 1)
COMMENT == T("COMMENT", "#c", 2)
COMMA == T("OP", ",", 1)

\* from just after the name token to just before the value
EqItems(style, indent) ==
    CASE style = "tight"  -> EQ
      [] style = "spaced" -> SP \o EQ \o SP
      [] style = "pre"    -> SP \o EQ
      [] style = "post"   -> EQ \o SP
      [] style = "nl"     -> SP \o EQ \o BRK(indent)
      [] style = "nlpre"  -> BRK(indent) \o EQ \o SP
      [] style = "cmt"    -> SP \o EQ \o SP \o COMMENT \o BRK(indent)
      [] style = "cmtpre" -> SP \o COMMENT \o BRK(indent) \o EQ \o SP

\* bar(name=1) or bar(name=1,<newline>) as the value of a keyword of the outer call
InnerItems(val, indent) ==
    R("NAME", "bar", 3, "valcall", 0) \o T("OP", "(", 1)
    \o R("NAME", val.name, 1, "kw", 1) \o EqItems(val.style, indent)
    \o R("NUMBER", "1", 1, "val", 1)
    \o (IF val.ml THEN COMMA \o BRK(indent) ELSE <<>>)
    \o R("OP", ")", 1, "close", 1)

\* f"{name=!r}" as tokenize splits it (Python 3.12 and later)
FdbgItems(val) ==
    R("FSTRING_START", "f\"", 2, "val", 0) \o T("OP", "{", 1)
    \o T("NAME", val.name, 1) \o EQ \o T("OP", "!", 1) \o T("NAME", "r", 1)
    \o T("OP", "}", 1) \o T("FSTRING_END", "\"", 1)

ValItems(val, indent) ==
    CASE val.kind = "const" -> R("NUMBER", "1", 1, "val", 0)
      [] val.kind = "ref"   -> R("NAME", val.name, 1, "val", 0)
      [] val.kind = "fdbg"  -> FdbgItems(val)
      [] val.kind = "call"  -> InnerItems(val, indent)

\* the column at which a continuation line of an entry starts
ContIndent(indent) == indent + 4

\* one keyword entry of the outer call
ArgItems(arg, indent) ==
    IF arg.name = None
    THEN R("OP", "**", 2, "star", 0) \o R("NAME", "kw", 2, "val", 0)
    ELSE R("NAME", arg.name, 1, "kw", 0) \o EqItems(arg.style, ContIndent(indent))
         \o ValItems(arg.val, indent)

\* the column at which the entries of a broken call start
ArgIndent(layout) == IF layout = "flat" THEN 0 ELSE 4

\* what follows entry k of n
SepItems(layout, last) ==
    CASE layout = "flat" -> IF last THEN <<>> ELSE COMMA \o SP
      [] layout = "hang" -> IF last THEN <<>> ELSE COMMA \o BRK(ArgIndent(layout))
      [] layout = "vert" -> COMMA \o BRK(IF last THEN 0 ELSE ArgIndent(layout))

RECURSIVE ArgsItems(_, _, _)
ArgsItems(args, k, layout) ==
    IF k > Len(args) THEN <<>>
    ELSE ArgItems(args[k], ArgIndent(layout)) \o SepItems(layout, k = Len(args))
         \o ArgsItems(args, k + 1, layout)

PreItems(pre) ==
    IF pre.name = "" THEN <<>>
    ELSE T("NAME", pre.name, 1) \o EqItems(IF pre.sp THEN "spaced" ELSE "tight", 0)
         \o T("NUMBER", "0", 1) \o ENDLINE

\* the whole file
Items(prog) ==
    PreItems(prog.pre)
    \o R("NAME", "foo", 3, "call", 0) \o T("OP", "(", 1)
    \o (IF prog.layout = "vert" THEN BRK(ArgIndent(prog.layout)) ELSE <<>>)
    \o ArgsItems(prog.args, 1, prog.layout)
    \o R("OP", ")", 1, "close", 0) \o ENDLINE
    \o T("ENDMARKER", "", 0)

\* the items with the (line, column) at which each starts and ends
Placed(items) ==
    LET n == Len(items)
        endCol[k \in 0..n] ==
            IF k = 0 THEN 0
            ELSE IF items[k].kind = "line" THEN items[k].width
            ELSE endCol[k - 1] + items[k].width
        lineOf[k \in 0..n] ==
            IF k = 0 THEN 1
            ELSE IF items[k].kind = "line" THEN lineOf[k - 1] + 1
            ELSE lineOf[k - 1]
    IN  [k \in 1..n |->
            [kind |-> items[k].kind, role |-> items[k].role, depth |-> items[k].depth,
             type |-> items[k].type, string |-> items[k].string,
             start |-> <<lineOf[k], endCol[k - 1]>>,
             end |-> <<lineOf[k], endCol[k]>>]]

IsToken(item) == item.kind = "tok"

\* tokenize.TokenInfo(type, string, start, end)
TokenInfo(item) ==
    [type |-> item.type, string |-> item.string, start |-> item.start, end |-> item.end]

\* the one element of a singleton; binds a computed value once
Only(S) == CHOOSE v \in S : TRUE

\* list(tokenize.generate_tokens(...)) of the file's text
Tokenize(prog) ==
    Only({[k \in 1..Len(toks) |-> TokenInfo(toks[k])] :
             toks \in {SelectSeq(pl, IsToken) : pl \in {Placed(its) : its \in {Items(prog)}}}})

\* the first index after i whose item has this role at this depth
NextWith(pl, i, roles, depth) ==
    CHOOSE j \in (i + 1)..Len(pl) :
        /\ pl[j].role \in roles /\ pl[j].depth = depth
        /\ \A m \in (i + 1)..(j - 1) : ~(pl[m].role \in roles /\ pl[m].depth = depth)

\* ast.Call whose callee is item i, its keywords at `depth`: lineno and
\* col_offset of the callee, end_lineno of `)`, and for each ast.keyword its
\* arg, the lineno and col_offset of its name and of its value
RECURSIVE CallNode(_, _, _)
CallNode(pl, i, depth) ==
    LET close == NextWith(pl, i, {"close"}, depth)
        IsKw(j) == i < j /\ j < close /\ pl[j].role \in {"kw", "star"}
                   /\ pl[j].depth = depth
        kws == SelectSeq([j \in 1..Len(pl) |-> j], IsKw)
        Keyword(j) ==
            LET v == NextWith(pl, j, {"val", "valcall"}, depth)
            IN  [arg |-> IF pl[j].role = "star" THEN None ELSE pl[j].string,
                 lineno |-> pl[j].start[1], col_offset |-> pl[j].start[2],
                 value |-> [lineno |-> pl[v].start[1], col_offset |-> pl[v].start[2],
                            calls |-> IF pl[v].role = "valcall"
                                      THEN <<CallNode(pl, v, depth + 1)>> ELSE <<>>]]
    IN  [lineno |-> pl[i].start[1], col_offset |-> pl[i].start[2],
         end_lineno |-> pl[close].start[1],
         keywords |-> [m \in 1..Len(kws) |-> Keyword(kws[m])]]

\* the Call nodes the module's statements hold, in source order
Parse(prog) ==
    Only({<<CallNode(pl, NextWith(pl, 0, {"call"}, 0), 0)>> :
             pl \in {Placed(its) : its \in {Items(prog)}}})

\* ------------------------------------------ MultilineNamedArgsChecker

Abs(n) == IF n < 0 THEN -n ELSE n
Min(m, n) == IF m < n THEN m ELSE n

\* the result None of _find_equals_for_keyword
NoEquals ==
    [found |-> FALSE, line |-> 0, col |-> 0,
     has_space_before |-> FALSE, has_space_after |-> FALSE]

\* EqualsTokenInfo(line, col, has_space_before, has_space_after)
EqualsTokenInfo(line, col, before, after) ==
    [found |-> TRUE, line |-> line, col |-> col,
     has_space_before |-> before, has_space_after |-> after]

\* the token types the look-ahead skips
SkippedTypes == {"NL", "NEWLINE", "INDENT", "DEDENT", "COMMENT"}

\* the strings that, after `=`, make it a comparison operator
ComparisonTails == {"=", "!", "<", ">"}

\* a NAME token matching the keyword on or near the line of its value
IsCandidate(token, keyword) ==
    /\ token.type = "NAME"
    /\ token.string = keyword.arg
    /\ Abs(token.start[1] - keyword.value.lineno) <= LINE_SEARCH_TOLERANCE

\* faulty variant of HasSpaceAfter: compares against the next token that is
\* neither a comment nor a non-logical line break
HasSpaceAfterSkipping(tokens, j) ==
    LET rest == {n \in (j + 1)..Len(tokens) : tokens[n].type \notin {"NL", "COMMENT"}}
        next == CHOOSE n \in rest : \A m \in rest : n <= m
    IN  IF rest = {} THEN FALSE
        ELSE IF tokens[next].type = "NEWLINE" THEN FALSE
        ELSE tokens[j].end # tokens[next].start

\* has_space_after of the `=` at index j (indices from 1)
HasSpaceAfter(tokens, j) ==
    IF j + 1 <= Len(tokens)
    THEN IF tokens[j + 1].type \notin {"NEWLINE", "NL"}
         THEN tokens[j].end # tokens[j + 1].start
         ELSE FALSE
    ELSE FALSE

RECURSIVE LookAhead(_, _, _)

\* faulty variant of ScanFrom: gives up at the first candidate that fails
RECURSIVE ScanFromFirstOnly(_, _, _)
ScanFromFirstOnly(tokens, keyword, i) ==
    IF i > Len(tokens) THEN NoEquals
    ELSE IF IsCandidate(tokens[i], keyword)
         THEN LookAhead(tokens, i, i + 1)
         ELSE ScanFromFirstOnly(tokens, keyword, i + 1)

\* the inner loop, for j in range(i + 1, min(i + MAX_TOKEN_LOOKAHEAD, len)),
\* with indices from 1; NoEquals when it breaks or runs out
LookAhead(tokens, i, j) ==
    IF j > Min(i + MAX_TOKEN_LOOKAHEAD - 1, Len(tokens)) THEN NoEquals
    ELSE LET next_tok == tokens[j] IN
         IF next_tok.type \in SkippedTypes THEN LookAhead(tokens, i, j + 1)
         ELSE IF next_tok.type = "OP" /\ next_tok.string = "="
         THEN IF /\ j + 1 <= Len(tokens)
                 /\ tokens[j + 1].type = "OP"
                 /\ tokens[j + 1].string \in ComparisonTails
              THEN NoEquals
              ELSE EqualsTokenInfo(next_tok.start[1], next_tok.start[2],
                                   tokens[i].end # next_tok.start,
                                   HasSpaceAfter(tokens, j))
         ELSE NoEquals

\* the outer loop over file_tokens from index i
RECURSIVE ScanFrom(_, _, _)
ScanFrom(tokens, keyword, i) ==
    IF i > Len(tokens) THEN NoEquals
    ELSE IF IsCandidate(tokens[i], keyword)
         THEN LET info == LookAhead(tokens, i, i + 1)
              IN  IF info.found THEN info ELSE ScanFrom(tokens, keyword, i + 1)
         ELSE ScanFrom(tokens, keyword, i + 1)

FindEqualsForKeyword(tokens, keyword) ==
    IF keyword.arg = None THEN NoEquals ELSE ScanFrom(tokens, keyword, 1)

\* faulty variant of IsMultiline: compares with the line of the last value
IsMultilineByLastValue(node) ==
    node.lineno # node.keywords[Len(node.keywords)].value.lineno

IsMultiline(node) == node.lineno # node.end_lineno

Error(info, msg) == [line |-> info.line, col |-> info.col, msg |-> msg]

\* faulty variant of KeywordErrors: one error for each side that breaks the rule
KeywordErrorsPerSide(node, keyword, tokens) ==
    IF keyword.arg = None THEN <<>>
    ELSE LET equals_info == FindEqualsForKeyword(tokens, keyword)
             msg == IF IsMultiline(node) THEN MNA001 ELSE MNA002
             bad(flag) == IF IsMultiline(node) THEN ~flag ELSE flag
         IN  IF ~equals_info.found THEN <<>>
             ELSE (IF bad(equals_info.has_space_before)
                   THEN <<Error(equals_info, msg)>> ELSE <<>>)
                  \o (IF bad(equals_info.has_space_after)
                      THEN <<Error(equals_info, msg)>> ELSE <<>>)

\* the body of the loop over node.keywords: no error or one
KeywordErrors(node, keyword, tokens) ==
    IF keyword.arg = None THEN <<>>
    ELSE LET equals_info == FindEqualsForKeyword(tokens, keyword) IN
         IF ~equals_info.found THEN <<>>
         ELSE IF IsMultiline(node)
         THEN IF ~equals_info.has_space_before \/ ~equals_info.has_space_after
              THEN <<Error(equals_info, MNA001)>> ELSE <<>>
         ELSE IF equals_info.has_space_before \/ equals_info.has_space_after
              THEN <<Error(equals_info, MNA002)>> ELSE <<>>

RECURSIVE CheckFrom(_, _, _)
CheckFrom(node, tokens, k) ==
    IF k > Len(node.keywords) THEN <<>>
    ELSE KeywordErrors(node, node.keywords[k], tokens) \o CheckFrom(node, tokens, k + 1)

\* what _check_call appends to self.errors
CheckCall(node, tokens) ==
    IF node.keywords = <<>> THEN <<>> ELSE CheckFrom(node, tokens, 1)

\* for each appended error, the call and the keyword it was appended for
RECURSIVE OriginFrom(_, _, _)
OriginFrom(node, tokens, k) ==
    IF k > Len(node.keywords) THEN <<>>
    ELSE [j \in 1..Len(KeywordErrors(node, node.keywords[k], tokens)) |->
             [call |-> node, keyword |-> node.keywords[k]]]
         \o OriginFrom(node, tokens, k + 1)

\* the Call nodes generic_visit reaches below node, in field order
RECURSIVE ChildrenFrom(_, _)
ChildrenFrom(node, k) ==
    IF k > Len(node.keywords) THEN <<>>
    ELSE node.keywords[k].value.calls \o ChildrenFrom(node, k + 1)

Children(node) == ChildrenFrom(node, 1)

\* ---------------------------------------------------------------- state

VARIABLES
    lines,        \* the file handed to the plugin, by its layout
    tree,         \* the Call nodes of the tree handed to the plugin
    tokenized,    \* how tokenize ended in __init__: "no" before it
    file_tokens,  \* self.file_tokens
    pc,           \* "new", "idle", or "visit" while a checker's run() is under way
    checker,      \* how often run() was called on the checker that exists; 0: none yet
    todo,         \* the Call nodes visit() has yet to reach, next first
    errors,       \* the checker's self.errors
    origin,       \* for each entry of errors, the call and keyword it is about
    out           \* what each run() so far has yielded

vars == <<lines, tree, tokenized, file_tokens, pc, checker, todo, errors, origin, out>>

Init ==
    /\ lines \in Programs
    /\ tree = Parse(lines)
    /\ tokenized = "no"
    /\ file_tokens = <<>>
    /\ pc = "new"
    /\ checker = 0
    /\ todo = <<>>
    /\ errors = <<>>
    /\ origin = <<>>
    /\ out = <<>>

\* faulty variant of TokensStored: only TokenError is absorbed
TokensStoredUnlessTokenError(outcome, source) ==
    IF outcome = "TokenError" THEN <<>> ELSE Tokenize(source)

\* what __init__ stores for each way tokenize can end
TokensStored(outcome, source) ==
    IF outcome = "ok" THEN Tokenize(source) ELSE <<>>

\* MultilineNamedArgsCheckerPlugin.__init__
PluginInit ==
    /\ pc = "new"
    /\ \E outcome \in {"ok", "TokenError", "Exception"} :
          /\ tokenized' = outcome
          /\ file_tokens' = TokensStored(outcome, lines)
    /\ pc' = "idle"
    /\ UNCHANGED <<lines, tree, checker, todo, errors, origin, out>>

\* MultilineNamedArgsCheckerPlugin.run: nothing without tokens, else a new
\* checker whose run() starts visiting the tree
PluginRun ==
    /\ pc = "idle"
    /\ Len(out) < MaxRuns
    /\ IF file_tokens = <<>>
       THEN /\ out' = Append(out, <<>>)
            /\ UNCHANGED <<pc, checker, todo, errors, origin>>
       ELSE /\ checker' = 1
            /\ errors' = <<>>
            /\ origin' = <<>>
            /\ todo' = tree
            /\ pc' = "visit"
            /\ UNCHANGED out
    /\ UNCHANGED <<lines, tree, tokenized, file_tokens>>

\* MultilineNamedArgsChecker.run called again on the checker that exists
CheckerRun ==
    /\ pc = "idle"
    /\ checker > 0
    /\ Len(out) < MaxRuns
    /\ checker' = checker + 1
    /\ todo' = tree
    /\ pc' = "visit"
    /\ UNCHANGED <<lines, tree, tokenized, file_tokens, errors, origin, out>>

\* visit_Call: _check_call(node), then generic_visit(node)
VisitCall ==
    /\ pc = "visit"
    /\ todo # <<>>
    /\ LET node == Head(todo) IN
          /\ errors' = errors \o CheckCall(node, file_tokens)
          /\ origin' = origin \o (IF node.keywords = <<>> THEN <<>>
                                  ELSE OriginFrom(node, file_tokens, 1))
          /\ todo' = Children(node) \o Tail(todo)
    /\ UNCHANGED <<lines, tree, tokenized, file_tokens, pc, checker, out>>

\* yield from self.errors
YieldErrors ==
    /\ pc = "visit"
    /\ todo = <<>>
    /\ out' = Append(out, errors)
    /\ pc' = "idle"
    /\ UNCHANGED <<lines, tree, tokenized, file_tokens, checker, todo, errors, origin>>

Next == PluginInit \/ PluginRun \/ CheckerRun \/ VisitCall \/ YieldErrors

Spec == Init /\ [][Next]_vars

\* ------------------------------------------------- what the text says

\* every Call node below these, in the order visit() reaches them
RECURSIVE PreOrder(_)
PreOrder(nodes) ==
    IF nodes = <<>> THEN <<>>
    ELSE <<Head(nodes)>> \o PreOrder(Children(Head(nodes)) \o Tail(nodes))

Calls == {PreOrder(tree)[k] : k \in 1..Len(PreOrder(tree))}

\* the named arguments of a call (its keywords other than `**` entries)
NamedArgs(c) == {c.keywords[k] : k \in {m \in DOMAIN c.keywords : c.keywords[m].arg # None}}

TreeIsMultiline(c) == c.end_lineno # c.lineno

IsEqualsToken(tok) == tok.type = "OP" /\ tok.string = "="

\* the token of file_tokens that starts at pos
IndexAt(pos) == CHOOSE i \in DOMAIN file_tokens : file_tokens[i].start = pos

\* the name token of a named argument, and its own `=`: the first one after the name
NameIndex(kw) == IndexAt(<<kw.lineno, kw.col_offset>>)
OwnEquals(kw) ==
    CHOOSE j \in DOMAIN file_tokens :
        /\ j > NameIndex(kw) /\ IsEqualsToken(file_tokens[j])
        /\ \A m \in (NameIndex(kw) + 1)..(j - 1) : ~IsEqualsToken(file_tokens[m])

\* whether anything separates the name from `=`, and `=` from the value
GapBefore(kw) == file_tokens[NameIndex(kw)].end # file_tokens[OwnEquals(kw)].start
GapAfter(kw) == file_tokens[OwnEquals(kw)].end # <<kw.value.lineno, kw.value.col_offset>>

\* name, `=` and value of the argument stand on one line
OnOneLine(kw) == kw.lineno = kw.value.lineno

\* the entries of errors appended for keyword kw of call c
FindingsFor(c, kw) ==
    {k \in DOMAIN errors : origin[k].call = c /\ origin[k].keyword = kw}

\* exactly one finding for (c, kw), with this message, at the argument's own `=`
OneFindingAtOwnEquals(c, kw, msg) ==
    /\ Cardinality(FindingsFor(c, kw)) = 1
    /\ \A k \in FindingsFor(c, kw) :
          errors[k] = [line |-> file_tokens[OwnEquals(kw)].start[1],
                       col |-> file_tokens[OwnEquals(kw)].start[2], msg |-> msg]

\* the run() of a new checker over the tokens of the text has ended
FreshRunDone == tokenized = "ok" /\ pc = "idle" /\ checker = 1

\* ------------------------------------- what the scan binds, declaratively

\* j is the first token after i that the look-ahead does not skip, it is
\* within the look-ahead, and it is `=`
Reaches(i, j) ==
    /\ i < j /\ j <= Len(file_tokens) /\ j <= i + MAX_TOKEN_LOOKAHEAD - 1
    /\ IsEqualsToken(file_tokens[j])
    /\ \A m \in (i + 1)..(j - 1) : file_tokens[m].type \in SkippedTypes

\* the `=` at j is followed by an operator that would continue a comparison
Continued(j) ==
    /\ j + 1 <= Len(file_tokens)
    /\ file_tokens[j + 1].type = "OP"
    /\ file_tokens[j + 1].string \in ComparisonTails

Candidates(kw) == {i \in DOMAIN file_tokens : IsCandidate(file_tokens[i], kw)}
Qualifying(kw) ==
    {i \in Candidates(kw) : \E j \in DOMAIN file_tokens : Reaches(i, j) /\ ~Continued(j)}

Least(S) == CHOOSE i \in S : \A m \in S : i <= m

\* the `=` the first qualifying candidate reaches
BoundEquals(kw) == CHOOSE j \in DOMAIN file_tokens : Reaches(Least(Qualifying(kw)), j)

\* has-space-before of the bound pair
BoundSpaceBefore(kw) ==
    file_tokens[Least(Qualifying(kw))].end # file_tokens[BoundEquals(kw)].start

\* the mode's rule is broken by these two flags
RuleBroken(c, before, after) ==
    IF TreeIsMultiline(c) THEN ~before \/ ~after ELSE before \/ after

\* --------------------------------------------------------------- claims

\* C1: a single-line call whose named arguments are all written name=value
\* (no gap before `=`, none after) gets no finding for any of its arguments,
\* whatever else the file holds.
C1_TightSingleLineCallIsClean ==
    FreshRunDone =>
        \A c \in Calls :
            (/\ ~TreeIsMultiline(c)
             /\ \A kw \in NamedArgs(c) : ~GapBefore(kw) /\ ~GapAfter(kw))
            => \A k \in DOMAIN errors : origin[k].call # c

\* C2: in a multiline call, each named argument with a gap missing before or
\* after its `=` gets exactly one MNA001, at its own `=`; each one written
\* name = value gets none.  (Stated for the arguments written on one line.)
C2_MultilineMissingSpaceGetsOneMNA001 ==
    FreshRunDone =>
        \A c \in Calls : TreeIsMultiline(c) =>
            \A kw \in {a \in NamedArgs(c) : OnOneLine(a)} :
                IF GapBefore(kw) /\ GapAfter(kw)
                THEN FindingsFor(c, kw) = {}
                ELSE OneFindingAtOwnEquals(c, kw, MNA001)

\* C3: in a single-line call, each named argument with a gap before or after
\* its `=` gets exactly one MNA002, at its own `=`; each one written
\* name=value gets none.
C3_SingleLineSpaceGetsOneMNA002 ==
    FreshRunDone =>
        \A c \in Calls : ~TreeIsMultiline(c) =>
            \A kw \in NamedArgs(c) :
                IF GapBefore(kw) \/ GapAfter(kw)
                THEN OneFindingAtOwnEquals(c, kw, MNA002)
                ELSE FindingsFor(c, kw) = {}

\* C4: a multiline call whose named arguments are all written name = value
\* (a gap before `=` and one after) gets no finding, also when a value is
\* itself a call.  (Stated for calls whose arguments each stand on one line.)
C4_SpacedMultilineCallIsClean ==
    FreshRunDone =>
        \A c \in Calls :
            (/\ TreeIsMultiline(c)
             /\ \A kw \in NamedArgs(c) : OnOneLine(kw) /\ GapBefore(kw) /\ GapAfter(kw))
            => \A kw \in NamedArgs(c) : FindingsFor(c, kw) = {}

\* C5: when tokenize fails, with TokenError or any other exception, the plugin
\* stores no tokens, and run() on a plugin without tokens yields nothing and
\* leaves no finding behind, whatever the tree holds.
C5_TokenizeFailureYieldsNothing ==
    /\ tokenized \in {"TokenError", "Exception"} => file_tokens = <<>>
    /\ (pc # "new" /\ file_tokens = <<>>) =>
          /\ pc = "idle" /\ checker = 0 /\ errors = <<>>
          /\ \A r \in DOMAIN out : out[r] = <<>>

W5_FailedTokenizeRunTwice ==
    /\ tokenized = "Exception"
    /\ Len(out) >= 2
    /\ lines.layout = "flat" /\ lines.args[1].style = "spaced"

\* C6: every run() on the same tree and tokens, on the same checker or on the
\* same plugin, yields the list the first run yielded.
C6_EveryRunYieldsTheSame ==
    \A r \in DOMAIN out : out[r] = out[1]

\* the named arguments of the tree, each with its call
NamedArgsOfTree == UNION {{<<c, kw>> : kw \in NamedArgs(c)} : c \in Calls}

\* what one visit_Call appends: entries for named, locatable keywords of the
\* visited call only, no two for the same keyword
VisitAppendsAtMostOneEach ==
    errors' # errors =>
        /\ pc = "visit" /\ todo # <<>>
        /\ Len(errors') >= Len(errors)
        /\ \A k \in (Len(errors) + 1)..Len(errors') :
              /\ origin'[k].call = Head(todo)
              /\ origin'[k].keyword \in NamedArgs(Head(todo))
              /\ Qualifying(origin'[k].keyword) # {}
              /\ \A m \in (Len(errors) + 1)..Len(errors') :
                    origin'[m].keyword = origin'[k].keyword => m = k

\* in the run of a new checker: the findings are for named, locatable
\* arguments, one each at most, so no more than the tree has named arguments
FirstRunAtMostOneEach ==
    (tokenized = "ok" /\ checker = 1) =>
        /\ \A k \in DOMAIN errors :
              /\ origin[k].call \in Calls
              /\ origin[k].keyword \in NamedArgs(origin[k].call)
              /\ Qualifying(origin[k].keyword) # {}
              /\ \A m \in DOMAIN errors : origin[m] = origin[k] => m = k
        /\ Len(errors) <= Cardinality(NamedArgsOfTree)

\* C7: in one run every named argument yields at most one finding, and an
\* argument whose `=` cannot be located, or that has no name, yields none; so
\* a run adds no more findings than the tree has named arguments.
C7_AtMostOneFindingPerNamedArgument ==
    [](FirstRunAtMostOneEach) /\ [][VisitAppendsAtMostOneEach \/ errors' = <<>>]_vars

W7_UnlocatedArgumentBesideFinding ==
    /\ FreshRunDone
    /\ errors # <<>>
    /\ \E p \in NamedArgsOfTree : Qualifying(p[2]) = {} /\ FindingsFor(p[1], p[2]) = {}

\* C8 as claimed: only the first candidate (a NAME token equal to the
\* argument's name within one line of the value) is tried; when it does not
\* lead to an `=` that stands, the argument yields no finding.
C8_FirstMatchWins ==
    FreshRunDone =>
        \A p \in NamedArgsOfTree :
            FindingsFor(p[1], p[2]) # {} => Least(Candidates(p[2])) \in Qualifying(p[2])

\* C8 as amended: the candidates are tried in token order, and the first one
\* that leads (past skipped tokens, within the look-ahead) to an `=` not
\* followed by `=`, `!`, `<` or `>` is the one used: a finding is at that `=`,
\* and there is one whenever the flags computed there break the call's rule;
\* without such a candidate there is no finding.
C8_FirstQualifyingMatchWins ==
    FreshRunDone =>
        \A p \in NamedArgsOfTree :
            IF Qualifying(p[2]) = {} THEN FindingsFor(p[1], p[2]) = {}
            ELSE LET j == BoundEquals(p[2]) IN
                 /\ \A k \in FindingsFor(p[1], p[2]) :
                       <<errors[k].line, errors[k].col>> = file_tokens[j].start
                 /\ RuleBroken(p[1], BoundSpaceBefore(p[2]), HasSpaceAfter(file_tokens, j))
                       => FindingsFor(p[1], p[2]) # {}

W8_LaterCandidateAfterRejectedComparison ==
    /\ FreshRunDone
    /\ \E p \in NamedArgsOfTree :
          /\ FindingsFor(p[1], p[2]) # {}
          /\ \E j \in DOMAIN file_tokens :
                Reaches(Least(Candidates(p[2])), j) /\ Continued(j)

\* C9: the rule applied is the owning call's: MNA001 only for a named argument
\* of a call that starts and ends on different lines, MNA002 only for one of a
\* call that starts and ends on the same line, a nested call by its own lines.
C9_ModeIsTheOwningCalls ==
    \A k \in DOMAIN errors :
        /\ origin[k].call \in Calls
        /\ origin[k].keyword \in NamedArgs(origin[k].call)
        /\ errors[k].msg = IF TreeIsMultiline(origin[k].call) THEN MNA001 ELSE MNA002

W9_SingleLineCallInsideMultilineCall ==
    \E k \in DOMAIN errors :
        /\ errors[k].msg = MNA002
        /\ origin[k].call # tree[1]
        /\ TreeIsMultiline(tree[1])

\* has-space-after as claimed: against the next token that is neither a
\* comment nor a non-logical line break; false when that is the end of the
\* logical line
ClaimedSpaceAfter(j) ==
    LET rest == {n \in (j + 1)..Len(file_tokens) :
                    file_tokens[n].type \notin {"NL", "COMMENT"}}
    IN  IF rest = {} THEN FALSE
        ELSE IF file_tokens[Least(rest)].type \in {"NEWLINE", "ENDMARKER"} THEN FALSE
        ELSE file_tokens[j].end # file_tokens[Least(rest)].start

\* has-space-after as amended: against the very next token; false when that
\* is an NL or NEWLINE token, or when there is none
NextTokenSpaceAfter(j) ==
    /\ j + 1 <= Len(file_tokens)
    /\ file_tokens[j + 1].type \notin {"NEWLINE", "NL"}
    /\ file_tokens[j].end # file_tokens[j + 1].start

\* C10 as claimed: has-space-after of a located `=` skips comments and
\* non-logical line breaks, so `name =` with the value on the next line has a
\* space after and gets no MNA001 in a multiline call.
C10_SpaceAfterSkipsLineBreaks ==
    FreshRunDone =>
        \A p \in NamedArgsOfTree :
            Qualifying(p[2]) # {} =>
                (FindingsFor(p[1], p[2]) # {}
                    <=> RuleBroken(p[1], BoundSpaceBefore(p[2]),
                                   ClaimedSpaceAfter(BoundEquals(p[2]))))

\* C10 as amended: has-space-after of a located `=` is computed against the
\* token right after it, nothing skipped: false when that token abuts `=` or is
\* an NL or NEWLINE token; so `name =` with the value on the next line has no
\* space after and gets MNA001 in a multiline call.
C10_SpaceAfterIsAgainstNextToken ==
    FreshRunDone =>
        \A p \in NamedArgsOfTree :
            Qualifying(p[2]) # {} =>
                (FindingsFor(p[1], p[2]) # {}
                    <=> RuleBroken(p[1], BoundSpaceBefore(p[2]),
                                   NextTokenSpaceAfter(BoundEquals(p[2]))))

W10_LineBreakAfterEqualsGetsMNA001 ==
    /\ FreshRunDone
    /\ \E p \in NamedArgsOfTree :
          /\ Qualifying(p[2]) # {}
          /\ BoundEquals(p[2]) = OwnEquals(p[2])
          /\ file_tokens[BoundEquals(p[2]) + 1].type = "NL"
          /\ BoundSpaceBefore(p[2])
          /\ \E k \in FindingsFor(p[1], p[2]) : errors[k].msg = MNA001

====
